---- MODULE Spec2Model ----
(***************************************************************************)
(* A model of the Kwirk IRC connection engine:                             *)
(*   IrcConnection (src/src/networks/base/connection.ts, lines 80-511)     *)
(*   IRC network / server pool (src/src/networks/irc/irc.ts)               *)
(*                                                                         *)
(* A Buffer is a sequence of bytes.  Every byte carries, next to its      *)
(* value b, the index `at` at which it arrived on the stream, so that an   *)
(* emitted line can be traced back to the received bytes it is made of.    *)
(***************************************************************************)
EXTENDS Integers, Sequences, FiniteSets, TLC

VARIABLES
    \* ---- IRC network (irc.ts 14-37)
    servers,             \* this.servers[ i ].enabled(), i in 1..Len(servers)
    index,               \* this._index
    active_server,       \* this.active_server (0: null)
    connection,          \* this.connection is not null
    connection_attempts, \* this.connection_attempts
    password,            \* a password is configured (server.password || network.password)
    net_enable,          \* this._enable
    net_connected,       \* the network's own _connected
    auto_disable_times,  \* this.auto_disable_times
    auto_disable_interval, \* this.auto_disable_interval
    auto_disabled_timer, \* this.auto_disabled_timer
    \* ---- IrcConnection (connection.ts 11-18, 82-91)
    conn_server,         \* this.server (0: no connection yet)
    socket,              \* this.socket: "null" | "connecting" | "open" | "ended" | "destroyed" | "closed"
    socket_server,       \* the server this.socket was opened to
    listeners,           \* events of this.socket that have a listener
    connected,           \* this._connected
    request_disconnect,  \* this.request_disconnect
    reconnect_attempts,  \* this.reconnect_attempts
    reconnect_delay,     \* this.reconnect_delay
    reconnect_timer,     \* this.reconnect_timer
    pong_timer,          \* this.pong_timer
    held_data,           \* this.held_data
    hold_last,           \* this.hold_last
    buffer,              \* the lines pushed to this.buffer, in order
    ticks,               \* this.end callbacks queued with process.nextTick
    \* ---- observation of what the handlers did
    parsed,              \* lines handed to parseMessage, in call order
    errors,              \* 'error' events emitted on the bot
    received,            \* bytes delivered by 'data' events
    fed,                 \* chunks delivered by 'data' events, in order
    selections,          \* results of next_server(), in call order
    line,                \* the line given to parseMessage
    msg_obj,             \* what parseMessage made of it
    effects,             \* how often each release effect was performed
    reconnects,          \* times reconnect() armed the idle timer since the last registration
    calls,               \* calls made from outside, errors raised (budget)
    last_call            \* the handler that ran last, and its outcome

vars == << servers, index, active_server, connection, connection_attempts, password,
           net_enable, net_connected, auto_disable_times, auto_disable_interval,
           auto_disabled_timer, conn_server, socket, socket_server, listeners,
           connected, request_disconnect, reconnect_attempts, reconnect_delay,
           reconnect_timer, pong_timer, held_data, hold_last, buffer, ticks,
           parsed, errors, received, fed, selections, line, msg_obj, effects,
           reconnects, calls, last_call >>

\* The state as one record, so that a handler that calls another handler is
\* the composition of the two.
Cur ==
    [ servers |-> servers, index |-> index, active_server |-> active_server,
      connection |-> connection, connection_attempts |-> connection_attempts,
      password |-> password,
      net_enable |-> net_enable, net_connected |-> net_connected,
      auto_disable_times |-> auto_disable_times,
      auto_disable_interval |-> auto_disable_interval,
      auto_disabled_timer |-> auto_disabled_timer,
      conn_server |-> conn_server, socket |-> socket,
      socket_server |-> socket_server, listeners |-> listeners,
      connected |-> connected, request_disconnect |-> request_disconnect,
      reconnect_attempts |-> reconnect_attempts,
      reconnect_delay |-> reconnect_delay, reconnect_timer |-> reconnect_timer,
      pong_timer |-> pong_timer, held_data |-> held_data,
      hold_last |-> hold_last, buffer |-> buffer, ticks |-> ticks,
      parsed |-> parsed, errors |-> errors, received |-> received, fed |-> fed,
      selections |-> selections, line |-> line, msg_obj |-> msg_obj,
      effects |-> effects,
      reconnects |-> reconnects, calls |-> calls, last_call |-> last_call ]

Becomes(s) ==
    /\ servers' = s.servers
    /\ index' = s.index
    /\ active_server' = s.active_server
    /\ connection' = s.connection
    /\ connection_attempts' = s.connection_attempts
    /\ password' = s.password
    /\ net_enable' = s.net_enable
    /\ net_connected' = s.net_connected
    /\ auto_disable_times' = s.auto_disable_times
    /\ auto_disable_interval' = s.auto_disable_interval
    /\ auto_disabled_timer' = s.auto_disabled_timer
    /\ conn_server' = s.conn_server
    /\ socket' = s.socket
    /\ socket_server' = s.socket_server
    /\ listeners' = s.listeners
    /\ connected' = s.connected
    /\ request_disconnect' = s.request_disconnect
    /\ reconnect_attempts' = s.reconnect_attempts
    /\ reconnect_delay' = s.reconnect_delay
    /\ reconnect_timer' = s.reconnect_timer
    /\ pong_timer' = s.pong_timer
    /\ held_data' = s.held_data
    /\ hold_last' = s.hold_last
    /\ buffer' = s.buffer
    /\ ticks' = s.ticks
    /\ parsed' = s.parsed
    /\ errors' = s.errors
    /\ received' = s.received
    /\ fed' = s.fed
    /\ selections' = s.selections
    /\ line' = s.line
    /\ msg_obj' = s.msg_obj
    /\ effects' = s.effects
    /\ reconnects' = s.reconnects
    /\ calls' = s.calls
    /\ last_call' = s.last_call

(***************************************************************************)
(* Bounds of the model.                                                    *)
(***************************************************************************)
NumServers == 3       \* servers of the pool
MaxCalls == 3         \* calls made from outside (connect, disconnect, dispose)
MaxFaults == 2        \* transport errors and closes by the peer
MaxPongs == 1         \* ticks of the pong timer
MaxChunks == 3        \* 'data' events

(***************************************************************************)
(* Program constants.                                                      *)
(***************************************************************************)
max_buffer_size == 1024
LF == 10
ReplacementChar == 65533
BaseReconnectDelay == 5000
PongInterval == 120000
BaseAutoDisableInterval == 180000
DefaultConnectionAttempts == 10

quit_message == "KwirK, a sophisticated utility bot"
Undefined == "undefined"
NoArg == [given |-> FALSE, index |-> 0]
Null == << >>

(***************************************************************************)
(* Buffers.                                                                *)
(***************************************************************************)
Bytes(buf) == [i \in DOMAIN buf |-> buf[i].b]

Ats(buf) == [i \in DOMAIN buf |-> buf[i].at]

\* The chunk with byte values `values`, arriving after `base` earlier bytes.
Arrive(values, base) ==
    [i \in DOMAIN values |-> [b |-> values[i], at |-> base + i]]

\* buf.toString( 'utf8' ) on the bytes the model feeds: an ASCII byte decodes
\* to the character of the same code, a byte that can never occur in UTF-8
\* (0xF8-0xFF) to U+FFFD.
Decode(b) == IF b < 128 THEN b ELSE ReplacementChar

toString(buf) == [i \in DOMAIN buf |-> Decode(buf[i].b)]

Fill(n, b) == [i \in 1..n |-> b]

(***************************************************************************)
(* IrcConnection.onData (connection.ts 221-284), as a function of the      *)
(* session state s and the chunk data.  Indices are those of the code      *)
(* (0-based line_start and data_pos); SubSeq is 1-based and inclusive.     *)
(***************************************************************************)
LfPositions(data) == {i \in DOMAIN data : data[i].b = LF}

\* 1-based position of the k-th line feed of data (0 for k = 0).
NthLf(data, k) ==
    IF k = 0 THEN 0
    ELSE CHOOSE i \in LfPositions(data) :
             Cardinality({j \in LfPositions(data) : j <= i}) = k

\* lines, after the for loop of lines 229-234.
SplitLines(data) ==
    [k \in 1..Cardinality(LfPositions(data)) |->
        SubSeq(data, NthLf(data, k - 1) + 1, NthLf(data, k) - 1)]

\* line_start after the loop: the index that follows the last line feed.
LineStart(data) == NthLf(data, Cardinality(LfPositions(data)))

\* lines 240-241 and 270-271: emit 'error', socket.destroy().
BufferTooLarge(s) ==
    [s EXCEPT !.errors = @ + 1, !.socket = "destroyed"]

\* NoCompleteLine with the held bytes left out of the size test.
NoCompleteLine_ignoring_held(s, data) ==
    IF Len(data) > max_buffer_size
    THEN BufferTooLarge(s)
    ELSE [s EXCEPT !.held_data = s.held_data \o data]

\* lines 237-255: the chunk holds no complete line.
NoCompleteLine(s, data) ==
    IF Len(s.held_data) + Len(data) > max_buffer_size
    THEN BufferTooLarge(s)
    ELSE [s EXCEPT !.held_data = s.held_data \o data]

\* MergeHeldState that forgets to reset hold_last and held_data.
MergeHeldState_kept(s) == s

\* lines 259-263 on the state: the held line is used up.
MergeHeldState(s) ==
    IF s.hold_last /\ s.held_data # Null
    THEN [s EXCEPT !.hold_last = FALSE, !.held_data = Null]
    ELSE s

\* lines 259-263 on lines: the held line goes in front of lines[ 0 ].
MergeHeldLines(s, lines) ==
    IF s.hold_last /\ s.held_data # Null
    THEN [lines EXCEPT ![1] = s.held_data \o lines[1]]
    ELSE lines

\* lines 281-283: every line goes to parseMessage as a string.
ProcessLines(s, lines) ==
    [s EXCEPT !.parsed = @ \o [i \in DOMAIN lines |->
                                 [line |-> toString(lines[i]), from |-> Ats(lines[i])]]]

\* lines 267-268: an incomplete last line that is too long to hold.
TailTooLarge(data) ==
    /\ LineStart(data) < Len(data)
    /\ Len(data) - LineStart(data) > max_buffer_size

\* lines 267, 275-277: the bytes after the last line feed are held.
HoldTail(s, data) ==
    IF LineStart(data) < Len(data)
    THEN [s EXCEPT !.hold_last = TRUE,
                   !.held_data = SubSeq(data, LineStart(data) + 1, Len(data))]
    ELSE s

\* CompleteLines without the return of line 272: the lines are still processed.
CompleteLines_without_return(s, data) ==
    IF TailTooLarge(data)
    THEN ProcessLines(BufferTooLarge(MergeHeldState(s)),
                      MergeHeldLines(s, SplitLines(data)))
    ELSE ProcessLines(HoldTail(MergeHeldState(s), data),
                      MergeHeldLines(s, SplitLines(data)))

\* lines 257-284: the chunk holds at least one complete line.
CompleteLines(s, data) ==
    IF TailTooLarge(data)
    THEN BufferTooLarge(MergeHeldState(s))
    ELSE ProcessLines(HoldTail(MergeHeldState(s), data),
                      MergeHeldLines(s, SplitLines(data)))

onData(s, data) ==
    IF SplitLines(data) = << >>
    THEN NoCompleteLine(s, data)
    ELSE CompleteLines(s, data)

(***************************************************************************)
(* Timers.  A handle of the timer factory: made (the handle exists),       *)
(* running (armed: it will fire), interval.                                *)
(***************************************************************************)
NoTimer == [made |-> FALSE, running |-> FALSE, interval |-> 0]

Timer(interval, autoStart) ==
    [made |-> TRUE, running |-> autoStart, interval |-> interval]

TimerStart(t) == [t EXCEPT !.running = TRUE]

TimerStop(t) == [t EXCEPT !.running = FALSE]

(***************************************************************************)
(* Servers and the network's own flags.                                    *)
(***************************************************************************)
HostNames == << "a.host", "b.host", "c.host", "d.host", "e.host", "f.host" >>

Host(i) == HostNames[i]

ServerDisable(s, i) == [s EXCEPT !.servers = [@ EXCEPT ![i] = FALSE]]

ServerEnableAll(s) == [s EXCEPT !.servers = [i \in DOMAIN @ |-> TRUE]]

NetworkDisable(s) == [s EXCEPT !.net_enable = FALSE]

NetworkEnable(s) == [s EXCEPT !.net_enable = TRUE]

NetworkConnected(s) == s.net_connected

\* network.clearTimers(): every timer made by network.Timer is stopped.
ClearTimers(s) ==
    [s EXCEPT !.pong_timer = TimerStop(@),
              !.reconnect_timer = TimerStop(@),
              !.auto_disabled_timer = TimerStop(@),
              !.effects.clear_timers = @ + 1]

(***************************************************************************)
(* IrcConnection (connection.ts 80-511).                                   *)
(***************************************************************************)
isConnected(s) == s.connected

\* send (294-298)
send(s, data) ==
    IF isConnected(s) /\ s.socket # "null"
    THEN [s EXCEPT !.buffer = Append(@, data \o << "\r\n" >>)]
    ELSE s

\* disposeSocket (208-214)
disposeSocket(s) ==
    IF s.socket # "null"
    THEN [s EXCEPT !.socket = "null",
                   !.listeners = {},
                   !.effects.socket_end = @ + 1,
                   !.effects.listeners_removed = @ + 1]
    ELSE s

\* if ( this.pong_timer ) this.pong_timer.stop()  (188, 309-310, 327-328)
StopPong(s) ==
    IF s.pong_timer.made
    THEN [s EXCEPT !.pong_timer = TimerStop(@)]
    ELSE s

\* process.nextTick( this.end.bind( this ) )  (194)
ScheduleEnd(s) ==
    [s EXCEPT !.ticks = @ + 1, !.effects.teardown = @ + 1]

\* disconnect, were it to call this.end() itself instead of queueing it
disconnect_ending_now(s, message) ==
    IF ~isConnected(s) /\ s.socket = "null"
    THEN s
    ELSE [ClearTimers(disposeSocket(
           send([StopPong(s) EXCEPT !.request_disconnect = TRUE],
                << "QUIT : ", IF message = Undefined THEN quit_message ELSE message >>)))
            EXCEPT !.effects.unpipe = @ + 1]

\* disconnect (185-195); message is Undefined when the argument is left out.
disconnect(s, message) ==
    IF ~isConnected(s) /\ s.socket = "null"
    THEN s
    ELSE ScheduleEnd(
           send([StopPong(s) EXCEPT !.request_disconnect = TRUE],
                << "QUIT : ", IF message = Undefined THEN quit_message ELSE message >>))

\* if ( this.reconnect_timer ) this.reconnect_timer.stop()  (201-202)
StopReconnect(s) ==
    IF s.reconnect_timer.made
    THEN [s EXCEPT !.reconnect_timer = TimerStop(@)]
    ELSE s

\* dispose (197-206)
dispose(s, message) ==
    disposeSocket(StopReconnect(IF isConnected(s) THEN disconnect(s, message) ELSE s))

\* end (286-290)
end(s) ==
    [ClearTimers(disposeSocket(s)) EXCEPT !.effects.unpipe = @ + 1]

\* this.reconnect_delay * this.reconnect_attempts || this.reconnect_delay  (355)
NextReconnectDelay(delay, attempts) ==
    IF delay * attempts # 0 THEN delay * attempts ELSE delay

\* reconnect (354-371)
reconnect(s) ==
    LET delay == NextReconnectDelay(s.reconnect_delay, s.reconnect_attempts)
    IN  [s EXCEPT !.reconnect_delay = delay,
                  !.reconnect_timer =
                      TimerStart(IF @.made THEN [@ EXCEPT !.interval = delay]
                                 ELSE Timer(delay, FALSE)),
                  !.reconnects = IF s.reconnect_timer.running THEN @ ELSE @ + 1]

\* connect (97-130)
connect(s) ==
    IF isConnected(s)
    THEN [s EXCEPT !.last_call.already = TRUE]
    ELSE [s EXCEPT !.socket = "connecting",
                   !.socket_server = s.conn_server,
                   !.listeners = {"connect", "error"}]

\* send_login (432-439)
send_login(s) ==
    LET p == IF s.password THEN send(s, << "PASS ", "password" >>) ELSE s
    IN  send(send(p, << "NICK ", "nick" >>),
             << "USER ", "user", " ", "8", " * :", "realname" >>)

\* onRegistered, were it to reset the count and keep the interval
onRegistered_interval_kept(s) == [s EXCEPT !.auto_disable_times = 0]

\* IRC.onRegistered (irc.ts 366-375), the listener of 'registered::<name>'
onRegistered(s) ==
    [s EXCEPT !.auto_disable_times = 0,
              !.auto_disable_interval = BaseAutoDisableInterval]

\* connectionSetup (132-168), with the listener of 'connect::<name>'
\* (irc.ts 61-63) and the listeners of 'registered::<name>'.
connectionSetup(s) ==
    LET up     == [s EXCEPT !.net_connected = TRUE, !.connected = TRUE]
        logged == send_login(send(send(up, << "CAP LS " >>), << "CAP END" >>))
        timed  == [logged EXCEPT
                     !.pong_timer = IF @.made THEN @ ELSE Timer(PongInterval, TRUE),
                     !.listeners = @ \cup {"data", "end", "close"}]
    IN  [onRegistered(timed) EXCEPT !.pong_timer = TimerStart(@),
                                    !.reconnects = 0]

\* onClose, were it to settle without calling reconnect
onClose_settling(s) == StopPong([s EXCEPT !.connected = FALSE])

\* onClose (305-314)
onClose(s) ==
    LET closed == StopPong([s EXCEPT !.connected = FALSE])
    IN  IF ~closed.request_disconnect THEN reconnect(closed) ELSE closed

\* onEnd (373-381)
onEnd(s) == [s EXCEPT !.connected = FALSE]

\* onError, were an error of another kind to call reconnect as EPIPE does
onError_retrying_unknown(s, code) ==
    CASE code = "ENETUNREACH" -> ServerDisable(s, s.conn_server)
      [] code = "ETIMEDOUT" ->
           IF s.reconnect_attempts < s.connection_attempts
           THEN ServerDisable(s, s.conn_server)
           ELSE reconnect([s EXCEPT !.reconnect_attempts = @ + 1])
      [] OTHER ->
           IF ~s.request_disconnect THEN reconnect(StopPong(s)) ELSE StopPong(s)

\* onError, were a count equal to the ceiling still below it
onError_ceiling_inclusive(s, code) ==
    CASE code = "EPIPE" ->
           IF ~s.request_disconnect THEN reconnect(StopPong(s)) ELSE StopPong(s)
      [] code = "ENETUNREACH" -> ServerDisable(s, s.conn_server)
      [] code = "ETIMEDOUT" ->
           IF s.reconnect_attempts <= s.connection_attempts
           THEN ServerDisable(s, s.conn_server)
           ELSE reconnect([s EXCEPT !.reconnect_attempts = @ + 1])
      [] OTHER -> s

\* onError, were the last attempt below the ceiling to count as at it
onError_ceiling_less_one(s, code) ==
    CASE code = "EPIPE" ->
           IF ~s.request_disconnect THEN reconnect(StopPong(s)) ELSE StopPong(s)
      [] code = "ENETUNREACH" -> ServerDisable(s, s.conn_server)
      [] code = "ETIMEDOUT" ->
           IF s.reconnect_attempts < s.connection_attempts - 1
           THEN ServerDisable(s, s.conn_server)
           ELSE reconnect([s EXCEPT !.reconnect_attempts = @ + 1])
      [] OTHER -> s

\* onError (322-348)
onError(s, code) ==
    CASE code = "EPIPE" ->
           IF ~s.request_disconnect THEN reconnect(StopPong(s)) ELSE StopPong(s)
      [] code = "ENETUNREACH" -> ServerDisable(s, s.conn_server)
      [] code = "ETIMEDOUT" ->
           IF s.reconnect_attempts < s.connection_attempts
           THEN ServerDisable(s, s.conn_server)
           ELSE reconnect([s EXCEPT !.reconnect_attempts = @ + 1])
      [] OTHER -> s

\* pong (392-405), called by the pong timer
pong(s) ==
    IF s.socket = "null"
    THEN [s EXCEPT !.last_call.threw = TRUE]      \* this.socket.destroyed of null
    ELSE IF s.socket \in {"destroyed", "closed"}
         THEN disconnect(s, Undefined)
         ELSE send(s, << "PONG ", Host(s.conn_server) >>)

(***************************************************************************)
(* IRC (irc.ts 12-412): the server pool and the network's connect.         *)
(***************************************************************************)
Enabled(s) == {i \in DOMAIN s.servers : s.servers[i]}

Min(S) == CHOOSE x \in S : \A y \in S : x <= y

\* findEnabled (381-385): the first enabled server, 0 when there is none.
findEnabled(s) == IF Enabled(s) = {} THEN 0 ELSE Min(Enabled(s))

\* the test of lines 301-304 on the optional argument
IndexGiven(s, arg) == arg.given /\ arg.index >= 0 /\ arg.index < Len(s.servers)

\* NextIndex that wraps one server too early.
NextIndex_early_wrap(i, length) == IF length <= 1 THEN 0 ELSE (i + 1) % (length - 1)

\* ( this._index + 1 ) % this.servers.length || 0  (310)
NextIndex(i, length) == IF length = 0 THEN 0 ELSE (i + 1) % length

\* lines 301-311: the server looked at first (0: undefined); servers[ k ] of
\* the code is server k + 1 here.
FirstServer(s, arg) ==
    IF IndexGiven(s, arg) THEN arg.index + 1
    ELSE IF s.index < Len(s.servers) THEN s.index + 1 ELSE 0

\* next_server, were it to return the server under the cursor as it is
next_server_result_unchecked(s, arg) == FirstServer(s, arg)

\* the server next_server returns (298-338), 0 when it returns none
next_server_result(s, arg) ==
    LET server == FirstServer(s, arg)
    IN  IF server # 0 /\ ~s.servers[server] THEN findEnabled(s) ELSE server

\* this.auto_disable_interval * this.auto_disable_times || this.auto_disable_interval (319)
NextAutoDisableInterval(interval, times) ==
    IF interval * times # 0 THEN interval * times ELSE interval

\* lines 316-334: no server is enabled
AutoDisable(s) ==
    LET times    == s.auto_disable_times + 1
        interval == NextAutoDisableInterval(s.auto_disable_interval, times)
    IN  [NetworkDisable(s) EXCEPT !.auto_disable_times = times,
                                  !.auto_disable_interval = interval,
                                  !.auto_disabled_timer = Timer(interval, TRUE)]

\* next_server, were the cursor to stay when its server is disabled
next_server_state_fallback_stays(s, arg) ==
    LET server == FirstServer(s, arg)
        moved  == IF IndexGiven(s, arg) \/ (server # 0 /\ ~s.servers[server]) THEN s
                  ELSE [s EXCEPT !.index = NextIndex(@, Len(s.servers))]
    IN  IF server # 0 /\ ~s.servers[server] /\ findEnabled(s) = 0
        THEN AutoDisable(moved)
        ELSE moved

\* what next_server does to the network (298-338)
next_server_state(s, arg) ==
    LET server == FirstServer(s, arg)
        moved  == IF IndexGiven(s, arg) THEN s
                  ELSE [s EXCEPT !.index = NextIndex(@, Len(s.servers))]
    IN  IF server # 0 /\ ~s.servers[server] /\ findEnabled(s) = 0
        THEN AutoDisable(moved)
        ELSE moved

\* IRC.connect (238-257)
IRC_connect(s) ==
    IF ~s.net_enable \/ NetworkConnected(s)
    THEN s
    ELSE LET disposed == IF s.connection THEN dispose(s, Undefined) ELSE s
             server   == next_server_result(disposed, NoArg)
             chosen   == [next_server_state(disposed, NoArg) EXCEPT
                            !.active_server = server,
                            !.selections = Append(@,
                                [server |-> server, enabled |-> Enabled(disposed)])]
         IN  IF server = 0
             THEN chosen
             ELSE connect(IF chosen.connection THEN chosen
                          ELSE [chosen EXCEPT !.connection = TRUE,
                                              !.conn_server = server])

\* IRC.disconnect (211-232)
IRC_disconnect(s, message) ==
    IF ~NetworkConnected(s) THEN s
    ELSE IF ~s.connection THEN [s EXCEPT !.net_connected = FALSE]
         ELSE disconnect(s, message)

\* disableCheck, were it to enable the network and leave the servers as they are
disableCheck_servers_left_disabled(s) ==
    [IRC_connect(NetworkEnable(s)) EXCEPT !.auto_disabled_timer = NoTimer]

\* disableCheck (345-359), called by the auto disabled timer
disableCheck(s) ==
    [IRC_connect(ServerEnableAll(NetworkEnable(s))) EXCEPT
        !.auto_disabled_timer = NoTimer]

(***************************************************************************)
(* parseMessage (connection.ts 470-510).  A string is the sequence of its  *)
(* character codes, as Decode gives them.                                  *)
(***************************************************************************)
\* The characters the pattern and the splits name.
Chr == [space |-> 32, bang |-> 33, colon |-> 58, semicolon |-> 59,
        equals |-> 61, at |-> 64]

\* \s, and what . does not match
WhiteSpace == {9, 10, 11, 12, 13, 32, 160}
LineTerminators == {10, 13, 8232, 8233}

\* The value of a group that took no part in the match, and of a missing
\* array element: undefined.
NotMatched == << -1 >>

Max(S) == CHOOSE x \in S : \A y \in S : y <= x

\* String.prototype.trim (475)
trim(str) ==
    LET keep == {i \in DOMAIN str : str[i] \notin WhiteSpace}
    IN  IF keep = {} THEN << >> ELSE SubSeq(str, Min(keep), Max(keep))

\* replace( /\s+$/, '' )  (508)
TrimEnd(str) ==
    LET keep == {i \in DOMAIN str : str[i] \notin WhiteSpace}
    IN  IF keep = {} THEN << >> ELSE SubSeq(str, 1, Max(keep))

\* replace( /^\r+|\r+$/, '' ) (478): without the g flag, the first match
\* only: the leading run of CR if there is one, else the trailing run.
StripCr(str) ==
    LET other == {i \in DOMAIN str : str[i] # 13}
    IN  IF other = {} THEN << >>
        ELSE IF str[1] = 13 THEN SubSeq(str, Min(other), Len(str))
        ELSE SubSeq(str, 1, Max(other))

\* The last position of the longest run of characters outside `stop` that
\* starts at position p (p - 1 when the run is empty): a greedy [^...]+.
RunEnd(str, p, stop) ==
    LET bad == {i \in p..Len(str) : str[i] \in stop}
    IN  IF bad = {} THEN Len(str) ELSE Min(bad) - 1

NoGroups ==
    [ok |-> FALSE, next |-> 0, g1 |-> NotMatched, g2 |-> NotMatched,
     g3 |-> NotMatched, g4 |-> NotMatched, g5 |-> NotMatched,
     g6 |-> NotMatched, g7 |-> NotMatched, g8 |-> NotMatched]

\* :(?:([^\s!]+)|([^\s!]+)!([^\s@]+)@?([^\s]+)?)<space>, the colon at c.
\* The two alternatives exclude each other (the run of [^\s!] is followed by
\* a space or by "!"), and every way to split ident and hostname ends at the
\* same space, so the first one in the order of the pattern is the match:
\* ident as long as it can be, then "@", then the hostname.
MatchSource(str, c) ==
    LET e == RunEnd(str, c + 1, WhiteSpace \cup {Chr.bang})
        w == RunEnd(str, e + 2, WhiteSpace)
        i == RunEnd(str, e + 2, WhiteSpace \cup {Chr.at})
    IN  IF e < c + 1 \/ e >= Len(str) THEN NoGroups
        ELSE IF str[e + 1] = Chr.space
        THEN [NoGroups EXCEPT !.ok = TRUE, !.next = e + 2,
                              !.g2 = SubSeq(str, c + 1, e)]
        ELSE IF str[e + 1] = Chr.bang /\ i >= e + 2
                /\ w < Len(str) /\ str[w + 1] = Chr.space
        THEN [NoGroups EXCEPT !.ok = TRUE, !.next = w + 2,
                              !.g3 = SubSeq(str, c + 1, e),
                              !.g4 = SubSeq(str, e + 2, i),
                              !.g5 = IF i + 2 <= w THEN SubSeq(str, i + 2, w)
                                     ELSE NotMatched]
        ELSE NoGroups

\* (?:(?:(?:@([^ ]+) )?):(?:...) )
MatchPrefix(str) ==
    LET t == RunEnd(str, 2, {Chr.space})
    IN  IF str = << >> THEN NoGroups
        ELSE IF str[1] = Chr.colon THEN MatchSource(str, 1)
        ELSE IF str[1] = Chr.at /\ t >= 2 /\ t + 2 <= Len(str)
                /\ str[t + 1] = Chr.space /\ str[t + 2] = Chr.colon
        THEN LET source == MatchSource(str, t + 2)
             IN  IF source.ok THEN [source EXCEPT !.g1 = SubSeq(str, 2, t)]
                 ELSE NoGroups
        ELSE NoGroups

\* (\S+)(?: (?!:)(.+?))?(?: :(.*))?$ from position p.  The lazy (.+?) ends
\* at the first position after which the rest of the pattern matches.
MatchRest(str, p) ==
    LET n == Len(str)
        q == RunEnd(str, p, WhiteSpace) + 1
        Dots(a, b) == \A k \in a..b : str[k] \notin LineTerminators
        Trailing(e) == e + 2 <= n /\ str[e + 1] = Chr.space
                       /\ str[e + 2] = Chr.colon /\ Dots(e + 3, n)
        TailOk(e) == Trailing(e) \/ e = n
        g8(e) == IF Trailing(e) THEN SubSeq(str, e + 3, n) ELSE NotMatched
        ends == {e \in (q + 1)..n : Dots(q + 1, e) /\ TailOk(e)}
    IN  IF p > n \/ q = p THEN NoGroups
        ELSE IF q <= n /\ str[q] = Chr.space /\ q + 1 <= n
                /\ str[q + 1] # Chr.colon /\ ends # {}
        THEN [NoGroups EXCEPT !.ok = TRUE, !.g6 = SubSeq(str, p, q - 1),
                              !.g7 = SubSeq(str, q + 1, Min(ends)),
                              !.g8 = g8(Min(ends))]
        ELSE IF TailOk(q - 1)
        THEN [NoGroups EXCEPT !.ok = TRUE, !.g6 = SubSeq(str, p, q - 1),
                              !.g8 = g8(q - 1)]
        ELSE NoGroups

\* parse_regex.exec (476-478): with the prefix when the whole line matches
\* with it, else without.
exec(str) ==
    LET prefix == MatchPrefix(str)
        after == MatchRest(str, prefix.next)
        whole == MatchRest(str, 1)
    IN  IF prefix.ok /\ after.ok
        THEN [prefix EXCEPT !.g6 = after.g6, !.g7 = after.g7, !.g8 = after.g8]
        ELSE whole

\* String.prototype.split with a one-character separator (487, 490)
RECURSIVE split(_, _)
split(str, sep) ==
    LET at == {i \in DOMAIN str : str[i] = sep}
    IN  IF at = {} THEN << str >>
        ELSE << SubSeq(str, 1, Min(at) - 1) >>
             \o split(SubSeq(str, Min(at) + 1, Len(str)), sep)

\* split( / +/ )  (504)
RECURSIVE SplitSpaces(_)
SplitSpaces(str) ==
    LET at == {i \in DOMAIN str : str[i] = Chr.space}
        rest == {i \in DOMAIN str : i > Min(at) /\ str[i] # Chr.space}
    IN  IF at = {} THEN << str >>
        ELSE << SubSeq(str, 1, Min(at) - 1) >>
             \o SplitSpaces(IF rest = {} THEN << >>
                            ELSE SubSeq(str, Min(rest), Len(str)))

\* a || b
Or(a, b) == IF a = NotMatched \/ a = << >> THEN b ELSE a

\* tags[ i ] = { tag: tag[ 0 ], value: tag[ 1 ] }  (489-492)
Tags(g1) ==
    LET tags == split(g1, Chr.semicolon)
    IN  [i \in DOMAIN tags |->
            LET tag == split(tags[i], Chr.equals)
            IN  [tag |-> tag[1],
                 value |-> IF Len(tag) >= 2 THEN tag[2] ELSE NotMatched]]

\* outcome: "none" (not called), "empty" (473), "malformed" (480-483), or
\* "built" with the fields of msg_obj (496-509)
NoMessage(outcome) ==
    [outcome |-> outcome, tags |-> << >>, prefix |-> NotMatched,
     nick |-> NotMatched, ident |-> NotMatched, hostname |-> NotMatched,
     command |-> NotMatched, params |-> << >>]

\* parseMessage (470-510)
parseMessage(str) ==
    LET message == exec(StripCr(trim(str)))
    IN  IF str = << >> THEN NoMessage("empty")
        ELSE IF ~message.ok THEN NoMessage("malformed")
        ELSE [outcome |-> "built",
              tags |-> IF Or(message.g1, << >>) # << >> THEN Tags(message.g1) ELSE << >>,
              prefix |-> message.g2,
              nick |-> Or(message.g3, message.g2),
              ident |-> Or(message.g4, << >>),
              hostname |-> Or(message.g5, << >>),
              command |-> message.g6,
              params |-> (IF Or(message.g7, << >>) # << >>
                          THEN SplitSpaces(message.g7) ELSE << >>)
                         \o (IF Or(message.g8, << >>) # << >>
                             THEN << TrimEnd(message.g8) >> ELSE << >>)]

(***************************************************************************)
(* The state after construction (irc.ts 14-37, 43-65; connection.ts 15-16, *)
(* 82-91): the network is enabled, no connection object exists yet.        *)
(***************************************************************************)
NoEffects ==
    [teardown |-> 0, socket_end |-> 0, listeners_removed |-> 0,
     clear_timers |-> 0, unpipe |-> 0]

\* arg: the reason given to disconnect / dispose, the code of an error
Call(op) == [op |-> op, arg |-> Undefined, already |-> FALSE, threw |-> FALSE]

Constructed(pool, attempts, pass) ==
    [ servers |-> pool, index |-> 0, active_server |-> 0, connection |-> FALSE,
      connection_attempts |-> attempts, password |-> pass,
      net_enable |-> TRUE, net_connected |-> FALSE,
      auto_disable_times |-> 0,
      auto_disable_interval |-> BaseAutoDisableInterval,
      auto_disabled_timer |-> NoTimer,
      conn_server |-> 0, socket |-> "null", socket_server |-> 0,
      listeners |-> {}, connected |-> FALSE, request_disconnect |-> FALSE,
      reconnect_attempts |-> 0, reconnect_delay |-> BaseReconnectDelay,
      reconnect_timer |-> NoTimer, pong_timer |-> NoTimer,
      held_data |-> Null, hold_last |-> FALSE, buffer |-> << >>, ticks |-> 0,
      parsed |-> << >>, errors |-> 0, received |-> 0, fed |-> << >>,
      selections |-> << >>, line |-> << >>, msg_obj |-> NoMessage("none"),
      effects |-> NoEffects, reconnects |-> 0,
      calls |-> [api |-> 0, faults |-> 0, pongs |-> 0],
      last_call |-> Call("new") ]

Is(s) ==
    /\ servers = s.servers
    /\ index = s.index
    /\ active_server = s.active_server
    /\ connection = s.connection
    /\ connection_attempts = s.connection_attempts
    /\ password = s.password
    /\ net_enable = s.net_enable
    /\ net_connected = s.net_connected
    /\ auto_disable_times = s.auto_disable_times
    /\ auto_disable_interval = s.auto_disable_interval
    /\ auto_disabled_timer = s.auto_disabled_timer
    /\ conn_server = s.conn_server
    /\ socket = s.socket
    /\ socket_server = s.socket_server
    /\ listeners = s.listeners
    /\ connected = s.connected
    /\ request_disconnect = s.request_disconnect
    /\ reconnect_attempts = s.reconnect_attempts
    /\ reconnect_delay = s.reconnect_delay
    /\ reconnect_timer = s.reconnect_timer
    /\ pong_timer = s.pong_timer
    /\ held_data = s.held_data
    /\ hold_last = s.hold_last
    /\ buffer = s.buffer
    /\ ticks = s.ticks
    /\ parsed = s.parsed
    /\ errors = s.errors
    /\ received = s.received
    /\ fed = s.fed
    /\ selections = s.selections
    /\ line = s.line
    /\ msg_obj = s.msg_obj
    /\ effects = s.effects
    /\ reconnects = s.reconnects
    /\ calls = s.calls
    /\ last_call = s.last_call

\* A pool of 1..NumServers servers, each enabled or disabled by its options.
Pools == UNION {[1..n -> BOOLEAN] : n \in 1..NumServers}

AllEnabled(pool) == \A i \in DOMAIN pool : pool[i]

\* options.connection_attempts: none, one, or the default (irc.ts 393)
AttemptCeilings == {0, 1, DefaultConnectionAttempts}

\* The whole engine, on a pool whose servers are all enabled.
Init ==
    \E pool \in {q \in Pools : AllEnabled(q)}, attempts \in AttemptCeilings :
        Is(Constructed(pool, attempts, FALSE))

\* The session's calls, on a pool whose servers are all enabled.
InitSession ==
    \E pool \in {q \in Pools : AllEnabled(q)} :
        Is(Constructed(pool, DefaultConnectionAttempts, FALSE))

\* The server pool, on any pool, with or without a password configured.
InitPool ==
    \E pool \in Pools, attempts \in AttemptCeilings, pass \in BOOLEAN :
        Is(Constructed(pool, attempts, pass))

\* The framer: a session on its first transport, right after connectionSetup.
Registered ==
    connectionSetup(
        [IRC_connect(Constructed(<< TRUE >>, DefaultConnectionAttempts, FALSE))
            EXCEPT !.socket = "open", !.last_call = Call("connectionSetup")])

InitFramer == Is(Registered)

(***************************************************************************)
(* The lines parseMessage is given: a line is tags, prefix, command,       *)
(* parameters, trailing parameter and the CR that the framer leaves at the *)
(* end of a line, each part present or not, well formed or not.            *)
(***************************************************************************)
\* @tags
TagParts ==
    { << >>,   \* nothing
      << 64, 116, 97, 103, 61, 118, 97, 108, 32 >>,   \* @tag=val 
      << 64, 97, 59, 98, 61, 99, 61, 100, 32 >>   \* @a;b=c=d 
    }

\* prefix
PrefixParts ==
    { << >>,   \* nothing
      << 58, 110, 105, 99, 107, 33, 105, 100, 101, 110, 116, 64, 104, 111, 115, 116, 32 >>,   \* :nick!ident@host 
      << 58, 105, 114, 99, 46, 104, 111, 115, 116, 32 >>,   \* :irc.host 
      << 58, 110, 105, 99, 107, 33, 105, 100, 101, 110, 116, 32 >>,   \* :nick!ident 
      << 58, 110, 105, 99, 107, 33, 64, 104, 111, 115, 116, 32 >>,   \* :nick!@host 
      << 58, 110, 105, 99, 107, 32, 32 >>   \* :nick  
    }

\* command
Commands ==
    { << 67, 79, 77, 77, 65, 78, 68 >>,   \* COMMAND
      << 48, 48, 49 >>   \* 001
    }

\* middle parameters
ParamParts ==
    { << >>,   \* nothing
      << 32, 112, 49, 32, 112, 50 >>,   \*  p1 p2
      << 32, 112, 49, 32, 32, 112, 50 >>   \*  p1  p2
    }

\* trailing parameter
TrailingParts ==
    { << >>,   \* nothing
      << 32, 58, 116, 114, 97, 105, 108, 105, 110, 103, 32, 119, 105, 116, 104, 32, 115, 112, 97, 99, 101, 115 >>,   \*  :trailing with spaces
      << 32, 58 >>   \*  :
    }

\* end of the line
EndParts ==
    { << >>,   \* nothing
      << 13 >>   \* \r
    }

\* lines that are no message: a blank line, a tab after the command
BlankLines ==
    { << 13 >>,   \* \r
      << 67, 79, 77, 77, 65, 78, 68, 9, 112, 49 >>   \* COMMAND\tp1
    }

Lines ==
    { tags \o prefix \o command \o params \o trailing \o cr :
        tags \in TagParts, prefix \in PrefixParts, command \in Commands,
        params \in ParamParts, trailing \in TrailingParts, cr \in EndParts }
    \cup BlankLines

\* The parser: a session that is about to be given a line.
InitParser ==
    \E l \in Lines :
        Is([Constructed(<< TRUE >>, DefaultConnectionAttempts, FALSE)
               EXCEPT !.line = l])

(***************************************************************************)
(* Steps.  A call from outside may come at any time, also in the turn of   *)
(* the event loop that queued a nextTick callback; a socket or timer       *)
(* event is handled only after the queued callbacks have run.              *)
(***************************************************************************)
Reasons == {"bye", Undefined}

\* The chunks a 'data' event may deliver: short ones around a line feed, the
\* two halves of "PING :abc\r\n", a byte that is not UTF-8, and chunks
\* around max_buffer_size.
Chunks ==
    { << 80 >>, << LF >>, << 80, LF >>, << LF, 80 >>, << 80, LF, 80, LF >>,
      << 80, 73 >>, << 78, 71, 32, 58, 97, 98, 99, 13, LF >>,
      << 255, LF >>,
      Fill(max_buffer_size, 80), Fill(max_buffer_size + 1, 80),
      << 80, LF >> \o Fill(max_buffer_size + 1, 80) }

ErrorCodes == {"EPIPE", "ENETUNREACH", "ETIMEDOUT", "ECONNRESET"}

Called(op) ==
    [Cur EXCEPT !.last_call = Call(op), !.calls.api = @ + 1]

Event(op) == [Cur EXCEPT !.last_call = Call(op)]

Fault(op, state) ==
    [Cur EXCEPT !.last_call = Call(op), !.calls.faults = @ + 1, !.socket = state]

\* network.connect()
Connect ==
    /\ calls.api < MaxCalls
    /\ Becomes(IRC_connect(Called("connect")))

\* network.disconnect( reason )
Disconnect ==
    /\ calls.api < MaxCalls
    /\ \E reason \in Reasons : Becomes(IRC_disconnect([Called("disconnect") EXCEPT !.last_call.arg = reason],
                               reason))

\* network.connection.dispose( reason )
Dispose ==
    /\ calls.api < MaxCalls
    /\ connection
    /\ \E reason \in Reasons : Becomes(dispose([Called("dispose") EXCEPT !.last_call.arg = reason], reason))

\* the callback queued by process.nextTick (194)
Tick ==
    /\ ticks > 0
    /\ Becomes(end([Event("end") EXCEPT !.ticks = @ - 1]))

\* 'connect' / 'secureConnect' of the socket (128)
SocketConnect ==
    /\ ticks = 0
    /\ socket = "connecting"
    /\ "connect" \in listeners
    /\ Becomes(connectionSetup([Event("connectionSetup") EXCEPT !.socket = "open"]))

\* 'error' of the socket (129); the socket is destroyed when it is emitted
SocketError ==
    /\ ticks = 0
    /\ calls.faults < MaxFaults
    /\ socket \in {"connecting", "open"}
    /\ "error" \in listeners
    /\ \E code \in ErrorCodes :
          Becomes(onError([Fault("onError", "destroyed") EXCEPT !.last_call.arg = code],
                          code))

\* 'end' of the socket (162): the peer closed its side
SocketEnd ==
    /\ ticks = 0
    /\ calls.faults < MaxFaults
    /\ socket = "open"
    /\ "end" \in listeners
    /\ Becomes(onEnd(Fault("onEnd", "ended")))

\* 'close' of the socket (163)
SocketClose ==
    /\ ticks = 0
    /\ socket \in {"ended", "destroyed"}
    /\ "close" \in listeners
    /\ Becomes(onClose([Event("onClose") EXCEPT !.socket = "closed"]))

\* 'data' of the socket (160)
SocketData ==
    /\ ticks = 0
    /\ socket = "open"
    /\ "data" \in listeners
    /\ Len(fed) < MaxChunks
    /\ \E chunk \in Chunks :
          Becomes(onData([Event("onData") EXCEPT !.fed = Append(@, chunk),
                                                !.received = @ + Len(chunk)],
                         Arrive(chunk, received)))

\* the reconnect timer fires (364-368): one shot, calls connect
ReconnectTimer ==
    /\ ticks = 0
    /\ reconnect_timer.running
    /\ Becomes(connect([Event("reconnect timer") EXCEPT
                            !.reconnect_timer = TimerStop(@)]))

\* the pong timer fires (146-157)
PongTimer ==
    /\ ticks = 0
    /\ pong_timer.running
    /\ calls.pongs < MaxPongs
    /\ Becomes(pong([Event("pong") EXCEPT !.calls.pongs = @ + 1]))

\* the auto disabled timer fires (323-333)
AutoDisabledTimer ==
    /\ ticks = 0
    /\ auto_disabled_timer.running
    /\ Becomes(disableCheck(Event("disableCheck")))

\* this.parseMessage( line )  (261, 277)
ParseLine ==
    /\ line # << >>
    /\ Becomes([Event("parseMessage") EXCEPT !.msg_obj = parseMessage(line)])

Next ==
    \/ Connect
    \/ Disconnect
    \/ Dispose
    \/ Tick
    \/ SocketConnect
    \/ SocketError
    \/ SocketEnd
    \/ SocketClose
    \/ ReconnectTimer
    \/ PongTimer
    \/ AutoDisabledTimer

Spec == Init /\ [][Next]_vars

NextPool ==
    \/ Connect
    \/ SocketConnect
    \/ SocketError
    \/ SocketClose
    \/ ReconnectTimer
    \/ AutoDisabledTimer

SpecPool == InitPool /\ [][NextPool]_vars

\* Exhaustion and the auto disabled timer: connect(), the socket's connect
\* and error, and the timer, which fires once started unless it is stopped
\* (it is made with autoStart, 325).  AutoDisabledTimerFires is the firing
\* as the timer shows it: a running timer that is no more; the only step
\* that does this is AutoDisabledTimer.
AutoDisabledTimerFires ==
    /\ ticks = 0
    /\ auto_disabled_timer.running
    /\ auto_disabled_timer' = NoTimer

InitExhaustion ==
    \E pool \in Pools : Is(Constructed(pool, DefaultConnectionAttempts, FALSE))

NextExhaustion ==
    \/ Connect
    \/ SocketConnect
    \/ SocketError
    \/ AutoDisabledTimer

SpecExhaustion ==
    /\ InitExhaustion
    /\ [][NextExhaustion]_vars
    /\ WF_auto_disabled_timer(AutoDisabledTimerFires)

NextFramer ==
    \/ SocketData
    \/ SocketClose
    \/ ReconnectTimer
    \/ SocketConnect

SpecFramer == InitFramer /\ [][NextFramer]_vars

NextSession ==
    \/ Connect
    \/ Disconnect
    \/ Dispose
    \/ Tick
    \/ SocketConnect
    \/ SocketEnd
    \/ SocketClose
    \/ ReconnectTimer
    \/ PongTimer

SpecSession == InitSession /\ [][NextSession]_vars

NextParser == ParseLine

SpecParser == InitParser /\ [][NextParser]_vars

(***************************************************************************)
(* What the properties speak of.                                           *)
(***************************************************************************)
RECURSIVE Join(_)
Join(seqs) == IF seqs = << >> THEN << >> ELSE Head(seqs) \o Join(Tail(seqs))

HasLf(chunk) == \E i \in DOMAIN chunk : chunk[i] = LF

LastLf(chunk) ==
    IF HasLf(chunk)
    THEN CHOOSE i \in DOMAIN chunk :
             chunk[i] = LF /\ \A j \in DOMAIN chunk : chunk[j] = LF => j <= i
    ELSE 0

FirstLf(chunk) ==
    CHOOSE i \in DOMAIN chunk :
        chunk[i] = LF /\ \A j \in DOMAIN chunk : chunk[j] = LF => i <= j

\* The text of a run of bytes, as the parser would be given it.
Text(values) == [i \in DOMAIN values |-> IF values[i] < 128 THEN values[i] ELSE ReplacementChar]

\* The bytes received so far, as one stream.
Stream == Join(fed)

\* The bytes of the last chunk that no line feed of the chunk terminates,
\* with the held partial line they would be appended to.
Unterminated(held, chunk) ==
    IF HasLf(chunk) THEN Len(chunk) - LastLf(chunk) ELSE Len(held) + Len(chunk)

QuitLines(log) == {i \in DOMAIN log : log[i][1] = "QUIT : "}

(***************************************************************************)
(* The framer (SpecFramer).                                                *)
(***************************************************************************)

\* C1: when the bytes received so far are complete line-feed-terminated
\* lines, delivered in chunks of at most max_buffer_size bytes with no
\* overflow raised, the lines handed to the parser are those the same bytes
\* give when a fresh session receives them as one chunk.
C1_ChunkingIsInvisible ==
    ( /\ fed # << >>
      /\ errors = 0
      /\ \A i \in DOMAIN fed : Len(fed[i]) <= max_buffer_size
      /\ Stream[Len(Stream)] = LF )
    => parsed = onData(Registered, Arrive(Stream, 0)).parsed

\* C2: a first chunk without a line feed is held, and the first line handed
\* to the parser from a second chunk with a line feed is the held bytes
\* followed by the second chunk's bytes up to its first line feed; "PI" then
\* "NG :abc\r\n" gives the parser exactly the one line "PING :abc\r".
C2_HeldIsPrepended ==
    ( /\ Len(fed) = 2
      /\ ~HasLf(fed[1])
      /\ HasLf(fed[2])
      /\ errors = 0 )
    => /\ parsed # << >>
       /\ parsed[1].line = Text(fed[1] \o SubSeq(fed[2], 1, FirstLf(fed[2]) - 1))
       /\ fed = << << 80, 73 >>, << 78, 71, 32, 58, 97, 98, 99, 13, 10 >> >>
            => Len(parsed) = 1

\* C3: the bytes of the lines handed to the parser, read in the order the
\* lines were handed over, are in the order they arrived, and no received
\* byte occurs twice; every line holds the bytes that arrived there.
C3_InOrderNoDuplicate ==
    LET at == Join([i \in DOMAIN parsed |-> parsed[i].from])
    IN  /\ \A i, j \in DOMAIN at : i < j => at[i] < at[j]
        /\ \A i \in DOMAIN parsed :
              parsed[i].line = Text([k \in DOMAIN parsed[i].from |-> Stream[parsed[i].from[k]]])

\* C3 witness: a line that straddles two chunks was handed to the parser
\* after another line.
C3_Witness ==
    /\ Len(fed) >= 2
    /\ \E i \in DOMAIN parsed :
          /\ i > 1
          /\ \E k, l \in DOMAIN parsed[i].from :
                /\ parsed[i].from[k] <= Len(fed[1])
                /\ parsed[i].from[l] > Len(fed[1])

\* C4: an onData call whose chunk leaves more than max_buffer_size
\* unterminated bytes (with the held partial line, when the chunk has no
\* line feed) emits exactly one 'error', destroys the socket and hands no
\* line to the parser.
C4_OverflowIsFatal ==
    [][ ( /\ last_call'.op = "onData"
          /\ Len(fed') = Len(fed) + 1
          /\ Unterminated(held_data, fed'[Len(fed')]) > max_buffer_size )
        => ( /\ errors' = errors + 1
             /\ socket' = "destroyed"
             /\ parsed' = parsed ) ]_vars

\* C4 witness: a chunk with a complete line and too long a tail was received.
C4_Witness ==
    /\ last_call.op = "onData"
    /\ HasLf(fed[Len(fed)])
    /\ Len(fed[Len(fed)]) - LastLf(fed[Len(fed)]) > max_buffer_size
    /\ socket = "destroyed"
    /\ errors = 1

\* C5: the held partial line is never longer than max_buffer_size bytes.
C5_HeldIsBounded == Len(held_data) <= max_buffer_size

\* C5 witness: bytes were added to a held line, which is now exactly
\* max_buffer_size bytes long.
C5_Witness ==
    /\ Len(fed) >= 2
    /\ Len(held_data) = max_buffer_size

(***************************************************************************)
(* The server pool (SpecPool).                                             *)
(***************************************************************************)

\* The enabled server that follows server i in insertion order, cyclically.
NextEnabled(E, i) ==
    IF \E j \in E : j > i THEN Min({j \in E : j > i}) ELSE Min(E)

\* C6: two successive selections made with the same servers enabled, some
\* server disabled and some enabled, return enabled servers that follow each
\* other in insertion order, so that every enabled server comes once per
\* cycle; with [A disabled, B, C] the selections are B, C, B, C, ...
C6_CyclesThroughEnabled ==
    \A i \in DOMAIN selections :
        ( /\ i < Len(selections)
          /\ selections[i].enabled = selections[i + 1].enabled
          /\ selections[i].enabled # {}
          /\ selections[i].enabled # DOMAIN servers )
        => /\ selections[i].server \in selections[i].enabled
           /\ selections[i + 1].server =
                 NextEnabled(selections[i].enabled, selections[i].server)

\* C7: among consecutive selections made with all N servers enabled, no
\* server comes again within N selections; a selection made with exactly one
\* server enabled returns that server.
C7_EachOnceAndTheOnlyOne ==
    /\ \A i, j \in DOMAIN selections :
          ( /\ i < j
            /\ j - i < Len(servers)
            /\ \A k \in i..j : selections[k].enabled = DOMAIN servers )
          => selections[i].server # selections[j].server
    /\ \A i \in DOMAIN selections :
          Cardinality(selections[i].enabled) = 1
          => selections[i].server \in selections[i].enabled

\* C7 witness: a pool of two servers: two selections with both enabled, then
\* one with only the second enabled, made with the cursor on the first.
C7_Witness ==
    /\ Len(servers) = 2
    /\ Len(selections) = 3
    /\ selections[1].enabled = {1, 2}
    /\ selections[2].enabled = {1, 2}
    /\ selections[3].enabled = {2}
    /\ selections[3].server = 2

(***************************************************************************)
(* The session's life (Spec).                                              *)
(***************************************************************************)

\* C8: when reconnect() has armed the reconnect timer for the k-th time
\* since the last registration, the timer's interval is the base delay
\* times k.
C8_DelayIsBaseTimesK ==
    (reconnects >= 1 /\ reconnect_timer.running)
    => reconnect_timer.interval = BaseReconnectDelay * reconnects

\* C9: a dispose() that directly follows a dispose() releases nothing
\* further: it pushes no quit line, queues no teardown, ends no socket,
\* removes no listeners, and leaves the timers as they are; and it does not
\* throw.
C9_DisposeIsIdempotent ==
    [][ (last_call.op = "dispose" /\ last_call'.op = "dispose")
        => ( /\ QuitLines(buffer') = QuitLines(buffer)
             /\ effects' = effects
             /\ ticks' = ticks
             /\ socket' = socket
             /\ pong_timer' = pong_timer
             /\ reconnect_timer' = reconnect_timer
             /\ ~last_call'.threw ) ]_vars

\* C10: once the teardown queued by a disconnect() of a connected session
\* has run, the session is not connected.
C10_DisconnectedAfterTeardown ==
    (last_call.op = "end" /\ request_disconnect /\ ticks = 0) => ~connected

\* C11: disconnect( reason ) on a connected session whose socket is open
\* pushes the line "QUIT : <reason>" with CR LF as the last outbound line and
\* leaves the socket open in that turn; it queues this.end for a later turn,
\* and only that callback tears the socket of a disconnect down.
C11_QuitThenTeardownLater ==
    [][ /\ ( /\ last_call'.op = "disconnect"
             /\ calls'.api = calls.api + 1
             /\ connected
             /\ socket = "open" )
           => ( /\ buffer' = Append(buffer,
                                   << "QUIT : ",
                                      IF last_call'.arg = Undefined
                                      THEN quit_message ELSE last_call'.arg,
                                      "\r\n" >>)
                /\ socket' = "open"
                /\ effects'.socket_end = effects.socket_end
                /\ ticks' = ticks + 1 )
        /\ ( /\ last_call.op = "disconnect"
             /\ socket = "open"
             /\ socket' = "null" )
           => ( /\ last_call'.op \in {"end", "dispose"}
                /\ QuitLines(buffer) # {} ) ]_vars

\* C11 witness: the teardown queued by disconnect( "bye" ) has run, after the
\* quit line was pushed.
C11_Witness ==
    /\ last_call.op = "end"
    /\ request_disconnect
    /\ socket = "null"
    /\ ticks = 0
    /\ effects.teardown = 1
    /\ buffer # << >>
    /\ buffer[Len(buffer)] = << "QUIT : ", "bye", "\r\n" >>

(***************************************************************************)
(* The handshake (SpecPool, with and without a password).                  *)
(***************************************************************************)

\* The first words of the last n outbound lines.
LastLines(log, n) == [i \in 1..n |-> log[Len(log) - n + i][1]]

\* C12: the lines connectionSetup pushes are, in this order, PASS when a
\* password is configured, then CAP LS, CAP END, NICK and USER.
C12_PassThenCapThenLogin ==
    last_call.op = "connectionSetup"
    => IF password
       THEN /\ Len(buffer) >= 5
            /\ LastLines(buffer, 5) = << "PASS ", "CAP LS ", "CAP END", "NICK ", "USER " >>
       ELSE /\ Len(buffer) >= 4
            /\ LastLines(buffer, 4) = << "CAP LS ", "CAP END", "NICK ", "USER " >>

(***************************************************************************)
(* Failover (SpecPool).                                                    *)
(***************************************************************************)

\* C13: an ENETUNREACH error of the socket disables the network's active
\* server; and a connect() that follows the error and selects a server,
\* some other server being enabled, selects an enabled server that is not
\* the one that was active at the error.
C13_UnreachableFailsOver ==
    [][ /\ ( /\ last_call'.op = "onError"
             /\ last_call'.arg = "ENETUNREACH"
             /\ calls'.faults = calls.faults + 1 )
           => ~servers'[active_server']
        /\ ( /\ last_call.op = "onError"
             /\ last_call.arg = "ENETUNREACH"
             /\ last_call'.op = "connect"
             /\ Len(selections') = Len(selections) + 1
             /\ \E i \in DOMAIN servers : i # active_server /\ servers[i] )
           => ( /\ active_server' # active_server
                /\ active_server' \in DOMAIN servers
                /\ servers[active_server'] ) ]_vars

\* C15: a socket that was opened and not yet torn down was opened to the
\* network's active server, the result of the last selection, on the first
\* connect cycle and on every later one.
C15_SocketTargetsActiveServer ==
    socket \in {"connecting", "open"} => socket_server = active_server

\* C16: next_server() returns an enabled server or none; called on a pool
\* with no server enabled it returns none, disables the network, adds one to
\* auto_disable_times and starts the auto disabled timer.
C16_NeverADisabledServer ==
    [][ Len(selections') = Len(selections) + 1
        => LET last == selections'[Len(selections')]
           IN  /\ last.server # 0 => last.server \in last.enabled
               /\ last.enabled = {}
                    => ( /\ last.server = 0
                         /\ active_server' = 0
                         /\ ~net_enable'
                         /\ auto_disable_times' = auto_disable_times + 1
                         /\ auto_disabled_timer'.running
                         /\ auto_disabled_timer'.interval = auto_disable_interval' ) ]_vars

\* C16 witness: a selection with the server under the cursor disabled
\* returned another server, and a later one found no server enabled.
C16_Witness ==
    /\ servers = << FALSE, FALSE >>
    /\ Len(selections) = 2
    /\ selections[1] = [server |-> 2, enabled |-> {2}]
    /\ selections[2] = [server |-> 0, enabled |-> {}]
    /\ ~net_enable
    /\ auto_disabled_timer.running

\* C17: while the auto disabled timer runs, armed at the n-th time in a row
\* that no server was enabled since the last registration (n is
\* auto_disable_times), its interval is 180000 ms times n.
C17_IntervalIsBaseTimesN ==
    auto_disabled_timer.running
    => /\ auto_disable_times >= 1
       /\ auto_disabled_timer.interval = BaseAutoDisableInterval * auto_disable_times

(***************************************************************************)
(* The parser (SpecParser).                                                *)
(***************************************************************************)

\* "@tag=val :nick!ident@host COMMAND p1 p2 :trailing with spaces"
FullLine ==
    << 64, 116, 97, 103, 61, 118, 97, 108, 32 >>
    \o << 58, 110, 105, 99, 107, 33, 105, 100, 101, 110, 116, 64, 104, 111, 115, 116, 32 >>
    \o << 67, 79, 77, 77, 65, 78, 68 >>
    \o << 32, 112, 49, 32, 112, 50 >>
    \o << 32, 58, 116, 114, 97, 105, 108, 105, 110, 103, 32, 119, 105, 116, 104, 32, 115, 112, 97, 99, 101, 115 >>

\* C14: parsing "@tag=val :nick!ident@host COMMAND p1 p2 :trailing with
\* spaces" gives tags [{tag: "tag", value: "val"}], prefix and nick "nick",
\* ident "ident", hostname "host", command "COMMAND" and params "p1", "p2",
\* "trailing with spaces".
C14_FullLineParsed ==
    (last_call.op = "parseMessage" /\ line = FullLine)
    => /\ msg_obj.outcome = "built"
       /\ msg_obj.tags = << [tag |-> << 116, 97, 103 >>, value |-> << 118, 97, 108 >>] >>
       /\ msg_obj.prefix = << 110, 105, 99, 107 >>
       /\ msg_obj.nick = << 110, 105, 99, 107 >>
       /\ msg_obj.ident = << 105, 100, 101, 110, 116 >>
       /\ msg_obj.hostname = << 104, 111, 115, 116 >>
       /\ msg_obj.command = << 67, 79, 77, 77, 65, 78, 68 >>
       /\ msg_obj.params = << << 112, 49 >>, << 112, 50 >>,
                              << 116, 114, 97, 105, 108, 105, 110, 103, 32, 119, 105, 116, 104, 32, 115, 112, 97, 99, 101, 115 >> >>

(***************************************************************************)
(* Reconnection (Spec).                                                    *)
(***************************************************************************)

\* C18: when connectionSetup has completed the registration, the
\* reconnect attempt count is zero and the reconnect delay is the base
\* delay.
C18_RegistrationResetsBackoff ==
    last_call.op = "connectionSetup"
    => /\ reconnect_attempts = 0
       /\ reconnect_delay = BaseReconnectDelay

\* C19: the handler of the socket's close event leaves the session not
\* connected and the pong timer stopped; when request_disconnect is not set
\* it leaves the reconnect timer running, and when it is set (a public
\* field; a disconnect() of this session removes the close listener before
\* the event) it leaves the reconnect timer as it was.
C19_CloseSettlesOrReconnects ==
    [][ /\ ( /\ last_call'.op = "onClose"
             /\ socket # "closed"
             /\ socket' = "closed" )
           => ( /\ ~connected'
                /\ ~pong_timer'.running
                /\ ~request_disconnect => reconnect_timer'.running
                /\ request_disconnect => reconnect_timer' = reconnect_timer )
        /\ LET closed == onClose([Cur EXCEPT !.request_disconnect = TRUE])
           IN  /\ ~closed.connected
               /\ ~closed.pong_timer.running
               /\ closed.reconnect_timer = reconnect_timer
               /\ closed.reconnects = reconnects ]_vars

\* C19 witness: a registered session's socket was closed without a
\* disconnect being requested.
C19_Witness ==
    /\ last_call.op = "onClose"
    /\ ~request_disconnect
    /\ ~connected
    /\ pong_timer.made
    /\ ~pong_timer.running
    /\ reconnect_timer.running

\* C20: an ETIMEDOUT error of the socket, with reconnect_attempts below
\* the network's connection_attempts, disables the session's server and
\* leaves reconnect_attempts, the reconnect delay and the reconnect timer as
\* they were; with reconnect_attempts at or above it, it adds one to
\* reconnect_attempts, leaves the reconnect timer running and disables no
\* server.
C20_TimeoutBelowOrAtCeiling ==
    [][ ( /\ last_call'.op = "onError"
          /\ last_call'.arg = "ETIMEDOUT"
          /\ calls'.faults = calls.faults + 1 )
        => IF reconnect_attempts < connection_attempts
           THEN /\ ~servers'[conn_server]
                /\ socket_server = conn_server
                /\ reconnect_attempts' = reconnect_attempts
                /\ reconnect_delay' = reconnect_delay
                /\ reconnect_timer' = reconnect_timer
           ELSE /\ reconnect_attempts' = reconnect_attempts + 1
                /\ reconnect_timer'.running
                /\ reconnect_timer'.interval = reconnect_delay'
                /\ servers' = servers ]_vars

\* C20 witness: a second ETIMEDOUT at the ceiling: the count is 2, the
\* reconnect timer runs and the session's server is still enabled.
C20_Witness ==
    /\ last_call.op = "onError"
    /\ last_call.arg = "ETIMEDOUT"
    /\ connection_attempts = 0
    /\ reconnect_attempts = 2
    /\ reconnect_timer.running
    /\ servers[conn_server]

(***************************************************************************)
(* Errors and recovery (SpecPool).                                         *)
(***************************************************************************)

\* C21: an error of the socket whose code is not EPIPE, ENETUNREACH or
\* ETIMEDOUT changes nothing of the session or the network: not the
\* connected flag, request_disconnect, reconnect_attempts, the reconnect
\* delay, the servers, the listeners, any timer, and this.socket still
\* refers to the socket.
C21_OtherErrorsAreOnlyReported ==
    [][ ( /\ last_call'.op = "onError"
          /\ last_call'.arg \notin {"EPIPE", "ENETUNREACH", "ETIMEDOUT"}
          /\ calls'.faults = calls.faults + 1 )
        => ( /\ connected' = connected
             /\ net_connected' = net_connected
             /\ request_disconnect' = request_disconnect
             /\ reconnect_attempts' = reconnect_attempts
             /\ reconnect_delay' = reconnect_delay
             /\ servers' = servers
             /\ net_enable' = net_enable
             /\ socket' # "null"
             /\ socket_server' = socket_server
             /\ listeners' = listeners
             /\ reconnect_timer' = reconnect_timer
             /\ pong_timer' = pong_timer
             /\ auto_disabled_timer' = auto_disabled_timer
             /\ reconnects' = reconnects
             /\ ticks' = ticks ) ]_vars

\* C21 witness: ECONNRESET on a registered session: still connected, the
\* pong timer still running, no reconnect timer made.
C21_Witness ==
    /\ last_call.op = "onError"
    /\ last_call.arg = "ECONNRESET"
    /\ connected
    /\ pong_timer.running
    /\ ~reconnect_timer.made

\* C22: when the auto disabled timer fires, disableCheck enables the
\* network and every server and calls connect(), whose selection returns an
\* enabled server, to which a socket is opened; so once the timer runs with
\* no server enabled, a selection that returns a server follows.
C22_TimerReenablesAndConnects ==
    /\ [][ (auto_disabled_timer.running /\ ~auto_disabled_timer'.running)
           => last_call'.op = "disableCheck" ]_vars
    /\ [][ last_call'.op = "disableCheck"
           => ( /\ net_enable'
                /\ \A i \in DOMAIN servers' : servers'[i]
                /\ Len(selections') = Len(selections) + 1
                /\ selections'[Len(selections')].server # 0
                /\ active_server' = selections'[Len(selections')].server
                /\ servers'[active_server']
                /\ socket' = "connecting" ) ]_vars
    /\ ( auto_disabled_timer.running /\ Enabled(Cur) = {} )
          ~> ( last_call.op = "disableCheck" /\ active_server # 0 )

\* C22 witness: the timer has fired on a pool of two servers that were both
\* disabled, and the first was selected.
C22_Witness ==
    /\ last_call.op = "disableCheck"
    /\ Len(servers) = 2
    /\ Len(selections) >= 2
    /\ selections[Len(selections) - 1] = [server |-> 0, enabled |-> {}]
    /\ selections[Len(selections)].enabled = {1, 2}
    /\ active_server # 0
    /\ socket = "connecting"

\* C23: when connectionSetup has emitted 'registered', the auto disable
\* count is 0 and the auto disable interval is 180000, so that lines 316-334
\* run on that state arm the timer with 180000; the count is 0 only
\* together with the base interval, and a step that takes the count from 0
\* arms the timer with the base interval.
C23_RegistrationResetsAutoDisable ==
    /\ [] ( last_call.op = "connectionSetup"
            => ( /\ auto_disable_times = 0
                 /\ auto_disable_interval = BaseAutoDisableInterval
                 /\ AutoDisable(Cur).auto_disabled_timer
                       = Timer(BaseAutoDisableInterval, TRUE) ) )
    /\ [] ( auto_disable_times = 0
            => auto_disable_interval = BaseAutoDisableInterval )
    /\ [][ ( auto_disable_times = 0 /\ auto_disable_times' # 0 )
           => ( /\ auto_disable_times' = 1
                /\ auto_disable_interval' = BaseAutoDisableInterval
                /\ auto_disabled_timer' = Timer(BaseAutoDisableInterval, TRUE) ) ]_vars

\* a registration after two exhaustions, which had doubled the interval
C23_Witness ==
    /\ last_call.op = "connectionSetup"
    /\ Cardinality({i \in DOMAIN selections : selections[i].server = 0}) = 2
    /\ auto_disable_times = 0
    /\ auto_disable_interval = BaseAutoDisableInterval

\* C24: the cursor _index is always at least 0 and less than the number of
\* servers, and every step in which connect() makes a selection takes it to
\* ( _index + 1 ) modulo the number of servers, whatever the selection
\* returned; no other step moves it.
C24_CursorAdvancesByOne ==
    /\ [] ( index \in 0 .. (Len(servers) - 1) )
    /\ [][ IF Len(selections') = Len(selections) + 1
           THEN index' = (index + 1) % Len(servers)
           ELSE index' = index ]_vars

\* two servers, the first disabled: a selection that fell back to the second
\* server, one that returned the second from the cursor, and, the second
\* disabled too by then, one that returned none; the cursor has wrapped.
C24_Witness ==
    /\ Len(servers) = 2
    /\ Len(selections) = 3
    /\ selections[1] = [server |-> 2, enabled |-> {2}]
    /\ selections[2] = [server |-> 2, enabled |-> {2}]
    /\ selections[3] = [server |-> 0, enabled |-> {}]
    /\ index = 1

\* C25: with connection_attempts at least 1, reconnect_attempts is 0 and
\* the reconnect delay is the base delay in every state, and an ETIMEDOUT
\* error of the socket disables the session's server and leaves the
\* reconnect timer as it was.
C25_CountStaysZero ==
    /\ [] ( connection_attempts >= 1
            => ( /\ reconnect_attempts = 0
                 /\ reconnect_delay = BaseReconnectDelay
                 /\ reconnect_timer.made
                      => reconnect_timer.interval = BaseReconnectDelay ) )
    /\ [][ ( /\ connection_attempts >= 1
             /\ last_call'.op = "onError"
             /\ last_call'.arg = "ETIMEDOUT"
             /\ calls'.faults = calls.faults + 1 )
           => ( /\ ~servers'[conn_server]
                /\ reconnect_timer' = reconnect_timer ) ]_vars

\* a ceiling of 1: an error that called reconnect() and, later, an
\* ETIMEDOUT error, the second error of the session
C25_Witness ==
    /\ connection_attempts = 1
    /\ last_call.op = "onError"
    /\ last_call.arg = "ETIMEDOUT"
    /\ calls.faults = 2
    /\ reconnect_timer.made
    /\ reconnects >= 1
    /\ reconnect_attempts = 0

(***************************************************************************)
(* The hold buffer across transports (SpecFramer).                         *)
(***************************************************************************)

\* C26: when the socket opened by a later connect() has connected, no bytes
\* are held: held_data is null and hold_last is not set, so nothing
\* received on the socket before goes in front of, or is counted with, the
\* data of the new socket.
C26_NewTransportHoldsNothing ==
    [][ ( socket = "connecting" /\ socket' = "open" )
        => ( held_data' = Null /\ ~hold_last' ) ]_vars

(***************************************************************************)
(* Recovery after an error (SpecPool).                                     *)
(***************************************************************************)

\* what makes the program call connect() later without a call from outside:
\* the reconnect timer or the auto disabled timer is running, or the close
\* event of the destroyed socket has a listener (onClose calls reconnect).
RecoveryPending ==
    \/ reconnect_timer.running
    \/ auto_disabled_timer.running
    \/ ( socket \in {"ended", "destroyed"} /\ "close" \in listeners
         /\ ~request_disconnect )

\* C27: after an ENETUNREACH error, or an ETIMEDOUT error with
\* reconnect_attempts below connection_attempts, on a session whose
\* disconnect was not requested and with a server of the pool still enabled,
\* a later connection attempt is on its way: a timer that calls connect() is
\* running or the close handler is still to run.
C27_ErrorLeadsToConnect ==
    ( /\ last_call.op = "onError"
      /\ \/ last_call.arg = "ENETUNREACH"
         \/ ( last_call.arg = "ETIMEDOUT"
              /\ reconnect_attempts < connection_attempts )
      /\ ~request_disconnect
      /\ Enabled(Cur) # {} )
    => RecoveryPending

====
